---- MODULE Spec2Model ----
(***************************************************************************)
(* State-machine model of opensir/models/model.py: the Model base class    *)
(* (parameter/state store, solve, fetch, export, fit and the callback the  *)
(* optimizer drives).                                                      *)
(*                                                                         *)
(* Numbers.  A parameter value x (a rate, a real number) is held as the    *)
(* integer 2x: fixed point with one binary place, so 1 is 0.5 and 200 is   *)
(* 100.0.  Initial conditions are head counts and are held as integers.    *)
(* Quotients (normalised initial conditions, linspace grid points) are     *)
(* exact rationals with the IEEE specials a division by zero produces.     *)
(*                                                                         *)
(* Optional values.  Python's None is the empty tuple, a present value x   *)
(* is the one-element tuple <<x>>.                                         *)
(***************************************************************************)
EXTENDS Integers, Sequences, FiniteSets, TLC

\* ------------------------------------------------------------ constants

NUM_PARAMS == 4

NUM_IC == 4

DAYS == 7

NUMPOINTS == DAYS

\* Most trial evaluations the optimizer makes in one fit call.
MaxTrials == 2

None == << >>

Some(x) == << x >>

\* ------------------------------------------------------------ numbers

\* The Python int k as a fixed-point value.
FromInt(k) == k + k

\* float -> int64 conversion: rounds toward zero.
Trunc(x) == IF x >= 0 THEN x - (x % 2) ELSE -((-x) - ((-x) % 2))

\* curve_fit's box constraints, bounds = (zeros, ones * 100).
LB == FromInt(0)

UB == FromInt(100)

Abs(x) == IF x < 0 THEN -x ELSE x

RECURSIVE Gcd(_, _)
Gcd(a, b) == IF b = 0 THEN a ELSE Gcd(b, a % b)

NaN == [cls |-> "nan", num |-> 0, den |-> 0]

Inf == [cls |-> "inf", num |-> 1, den |-> 0]

NegInf == [cls |-> "inf", num |-> -1, den |-> 0]

\* True division a / b of two numbers as numpy computes it in floating
\* point, kept exact: a reduced fraction, or nan / inf / -inf when b is 0.
Quot(a, b) ==
    IF b = 0
    THEN (IF a = 0 THEN NaN ELSE IF a > 0 THEN Inf ELSE NegInf)
    ELSE LET g == Gcd(Abs(a), Abs(b))
             s == IF b < 0 THEN -1 ELSE 1
         IN  [cls |-> "fin", num |-> (s * a) \div g, den |-> (s * b) \div g]

RECURSIVE SumSeq(_)
SumSeq(s) == IF s = << >> THEN 0 ELSE Head(s) + SumSeq(Tail(s))

\* np.linspace(0, stop, num): num evenly spaced points, both ends included.
Linspace(stop, num) ==
    [i \in 1..num |-> IF num = 1 THEN Quot(0, 1) ELSE Quot((i - 1) * stop, num - 1)]

\* ------------------------------------------------------------ arrays

\* A parameter container: the values and the dtype np.array gives them
\* ("int" for a list of Python ints, "float" as soon as one is a float).
IntList(s) == [dtype |-> "int", v |-> [i \in DOMAIN s |-> FromInt(s[i])]]

FloatList(s) == [dtype |-> "float", v |-> s]

\* Storing x into an ndarray of the given dtype casts it.
AsType(dtype, x) == IF dtype = "int" THEN Trunc(x) ELSE x

\* Number of selected entries among mask[1..i].
RECURSIVE Rank(_, _)
Rank(mask, i) == IF i = 0 THEN 0 ELSE Rank(mask, i - 1) + (IF mask[i] THEN 1 ELSE 0)

\* arr[mask]: the selected entries, in order.
RECURSIVE GetMaskedFrom(_, _, _)
GetMaskedFrom(v, mask, i) ==
    IF i > Len(v) THEN << >>
    ELSE (IF mask[i] THEN << v[i] >> ELSE << >>) \o GetMaskedFrom(v, mask, i + 1)

GetMasked(arr, mask) == GetMaskedFrom(arr.v, mask, 1)

\* params = np.array(self.p); params[fit_index] = vals
SetMasked(arr, mask, vals) ==
    [dtype |-> arr.dtype,
     v |-> [i \in DOMAIN arr.v |->
              IF mask[i] THEN AsType(arr.dtype, vals[Rank(mask, i)]) ELSE arr.v[i]]]

\* ------------------------------------------------------------ inputs

\* Parameter vectors callers pass to set_params: well-formed ones (ints,
\* floats, one above the fit's upper bound), ones with a zero or negative
\* entry, and ones of the wrong length (with and without a bad entry).
PInputs ==
    { IntList(<< 1, 1, 1, 1 >>),
      FloatList(<< 1, 2, 3, 4 >>),
      FloatList(<< 201, 2, 2, 2 >>),
      FloatList(<< 1, 1, 0, 0 >>),
      FloatList(<< 2, -1, 2, 2 >>),
      IntList(<< 1, 1, 1 >>),
      FloatList(<< 1, 0, 1 >>),
      IntList(<< 1, 1, 1, 1, 1 >>) }

\* Initial-condition vectors (head counts per compartment).
ICInputs ==
    { << 990, 10, 0, 0 >>,
      << 0, 0, 0, 0 >>,
      << -1, 2, 0, 0 >>,
      << 990, 10 >> }

\* (tf_days, numpoints) pairs passed to solve; the first is the defaults.
SolveInputs == { << DAYS, NUMPOINTS >>, << 10, 11 >> }

\* fit_index arguments: omitted, all false, two selected, wrong length.
FitIndexInputs ==
    { None,
      Some(<< FALSE, FALSE, FALSE, FALSE >>),
      Some(<< TRUE, TRUE, FALSE, FALSE >>),
      Some(<< TRUE, FALSE, FALSE >>) }

\* Values the optimizer may try or return for one fitted parameter: the
\* lower end of the box and an interior, non-integral point (0.5).
TrialVals == { LB, 1 }

\* ------------------------------------------------------------ state

VARIABLES
    p,        \* self.p: None or the parameter container
    pop,      \* self.pop: None or the population
    w0,       \* self.w0: None or the normalised initial conditions
    sol,      \* self.sol: None or the solution table
    pcov,     \* self.pcov: None or the covariance matrix
    pc,       \* "idle", or "fitting" while curve_fit is running
    frame,    \* the locals of the running (or the last finished) fit call
    ret,      \* the last operation: its name, arguments and outcome
    solved,   \* history: some solve call has returned
    fitted    \* history: some fit call has returned

vars == << p, pop, w0, sol, pcov, pc, frame, ret, solved, fitted >>

store == << p, pop, w0, sol, pcov >>

Result(op, res, args, val) == [op |-> op, res |-> res, args |-> args, val |-> val]

Init ==
    /\ p = None
    /\ pop = None
    /\ w0 = None
    /\ sol = None
    /\ pcov = None
    /\ pc = "idle"
    /\ frame = None
    /\ ret = Result("init", "ok", << >>, None)
    /\ solved = FALSE
    /\ fitted = FALSE

\* ------------------------------------------------------------ set_params

\* Variant: the check written as param >= 0, as the docstring words it.
AllNonNegative(pin) == \A i \in DOMAIN pin.v : pin.v[i] >= 0

\* for param in p: assert param > 0
AllPositive(pin) == \A i \in DOMAIN pin.v : pin.v[i] > 0

\* Variant: only the parameter count is compared.
ParamCountMatches(pin, icin) == Len(pin.v) = NUM_PARAMS

\* the negation of: len(p) != num_params or len(initial_conds) != num_ic
CountsMatch(pin, icin) == Len(pin.v) = NUM_PARAMS /\ Len(icin) = NUM_IC

\* np.sum(initial_conds)
Population(icin) == SumSeq(icin)

\* initial_conds / self.pop
Normalize(icin, n) == [i \in DOMAIN icin |-> Quot(icin[i], n)]

SetParamsResult(pin, icin) ==
    IF ~AllPositive(pin) THEN "InvalidParameterError"
    ELSE IF ~CountsMatch(pin, icin) THEN "InvalidNumberOfParametersError"
    ELSE "ok"

set_params(pin, icin) ==
    /\ pc = "idle"
    /\ ret' = Result("set_params", SetParamsResult(pin, icin), << pin, icin >>, None)
    /\ IF SetParamsResult(pin, icin) = "ok"
       THEN /\ p' = Some(pin)
            /\ pop' = Some(Population(icin))
            /\ w0' = Some(Normalize(icin, Population(icin)))
       ELSE UNCHANGED << p, pop, w0 >>
    /\ frame' = None
    /\ UNCHANGED << sol, pcov, pc, solved, fitted >>

\* ------------------------------------------------------------ export, fetch

\* Variant: export without the guard on self.sol.
ExportUnguarded(s) == "ok"

\* if self.sol is None: raise Exception("Missing call to solve()")
ExportResult(s) == IF s = None THEN "MissingSolution" ELSE "ok"

export ==
    /\ pc = "idle"
    /\ ret' = Result("export", ExportResult(sol), << >>, None)
    /\ frame' = None
    /\ UNCHANGED << store, pc, solved, fitted >>

FetchValue(s) == s

fetch ==
    /\ pc = "idle"
    /\ ret' = Result("fetch", "ok", << >>, FetchValue(sol))
    /\ frame' = None
    /\ UNCHANGED << store, pc, solved, fitted >>

\* ------------------------------------------------------------ solve

\* Whether solve can get past lines 128-130 on the stored state: on an
\* instance never set odeint is handed None for the initial state, and the
\* table is then multiplied by self.pop, which is None.
SolverCanRun == p # None /\ w0 # None

\* call_solver's table with the non-time columns multiplied by self.pop:
\* the time column, and the factor the state columns were scaled by.
Solution(tspan, n) == [t |-> tspan, scale |-> n]

\* ok = FALSE: self._model, the derivative function or odeint raised.
solve(tf_days, numpoints, ok) ==
    /\ pc = "idle"
    /\ ok => SolverCanRun
    /\ IF ok
       THEN /\ sol' = Some(Solution(Linspace(tf_days, numpoints), pop[1]))
            /\ solved' = TRUE
       ELSE UNCHANGED << sol, solved >>
    /\ ret' = Result("solve", IF ok THEN "ok" ELSE "error", << tf_days, numpoints >>, None)
    /\ frame' = None
    /\ UNCHANGED << p, pop, w0, pcov, pc, fitted >>

\* ------------------------------------------------------------ fit

\* fit_index = [False for i in range(len(self.p))]; fit_index[0] = True
DefaultFitIndex(n) == [i \in 1..n |-> i = 1]

\* The mask the call works with; None when building it or indexing
\* np.array(self.p) with it raises (self.p is None, or the mask's length
\* is not the parameter vector's).
FitIndexOf(fi) ==
    IF p = None THEN None
    ELSE IF fi = None THEN Some(DefaultFitIndex(Len(p[1].v)))
    ELSE IF Len(fi[1]) # Len(p[1].v) THEN None
    ELSE fi

Frame(mask, pre, p0, trials, last) ==
    [fit_index |-> mask, pre |-> pre, fit_params0 |-> p0, trials |-> trials, last |-> last]

\* fit up to the call of curve_fit.
fit(fi) ==
    /\ pc = "idle"
    /\ IF FitIndexOf(fi) = None
       THEN /\ ret' = Result("fit", "error", << >>, None)
            /\ frame' = None
            /\ pc' = "idle"
       ELSE /\ ret' = Result("fit", "running", << >>, None)
            /\ frame' = Some(Frame(FitIndexOf(fi)[1], p[1],
                                   GetMasked(p[1], FitIndexOf(fi)[1]), 0, None))
            /\ pc' = "fitting"
    /\ UNCHANGED << store, solved, fitted >>

\* curve_fit accepts the starting point only inside the box.
Feasible(p0) == \A i \in DOMAIN p0 : LB <= p0[i] /\ p0[i] <= UB

\* The points the optimizer may evaluate or return: one value of the box
\* per fitted parameter.
TrialPoints(p0) == [1..Len(p0) -> TrialVals]

\* The stored parameters after function_handle's first three statements.
TrialParams(params, mask, par_fit) == SetMasked(params, mask, par_fit)

\* self._update_ic(): the base class's hook changes nothing.
UpdateIc(w) == w

\* One call of function_handle by the optimizer. ok = FALSE: call_solver
\* raised, which ends curve_fit and the fit call with that exception.
function_handle(par_fit, ok) ==
    /\ pc = "fitting"
    /\ frame[1].trials < MaxTrials
    /\ Feasible(frame[1].fit_params0)
    /\ par_fit \in TrialPoints(frame[1].fit_params0)
    /\ p' = Some(TrialParams(p[1], frame[1].fit_index, par_fit))
    /\ w0' = UpdateIc(w0)
    /\ frame' = Some([frame[1] EXCEPT !.trials = @ + 1, !.last = Some(par_fit)])
    /\ pc' = IF ok THEN "fitting" ELSE "idle"
    /\ ret' = Result("fit", IF ok THEN "running" ELSE "error", << >>, None)
    /\ UNCHANGED << pop, sol, pcov, solved, fitted >>

\* self.p[fit_index] = par_opt
FitCommit(params, mask, par_opt) == SetMasked(params, mask, par_opt)

\* The covariance matrix over the fitted parameters: its dimension.
Covariance(p0) == [dim |-> Len(p0)]

\* curve_fit returns (par_opt, pcov): it has evaluated the model at least
\* once, on a problem with at least one unknown.
curve_fit_return(par_opt) ==
    /\ pc = "fitting"
    /\ frame[1].trials >= 1
    /\ Len(frame[1].fit_params0) >= 1
    /\ Feasible(frame[1].fit_params0)
    /\ par_opt \in TrialPoints(frame[1].fit_params0)
    /\ p' = Some(FitCommit(p[1], frame[1].fit_index, par_opt))
    /\ pcov' = Some(Covariance(frame[1].fit_params0))
    /\ fitted' = TRUE
    /\ pc' = "idle"
    /\ ret' = Result("fit", "ok", par_opt, None)
    /\ UNCHANGED << pop, w0, sol, frame, solved >>

\* Variant: the covariance slot is filled before curve_fit has returned.
PcovSetEarly(c) == Some([dim |-> 0])

\* What a fit call that raises leaves in self.pcov.
PcovOnError(c) == c

\* curve_fit raises: the starting point is outside the box or the data
\* are unusable (before any evaluation), or the optimizer gives up.
curve_fit_raise ==
    /\ pc = "fitting"
    /\ pc' = "idle"
    /\ pcov' = PcovOnError(pcov)
    /\ ret' = Result("fit", "error", << >>, None)
    /\ UNCHANGED << p, pop, w0, sol, frame, solved, fitted >>

\* ------------------------------------------------------------ specification

Next ==
    \/ \E pin \in PInputs, icin \in ICInputs : set_params(pin, icin)
    \/ export
    \/ fetch
    \/ \E a \in SolveInputs, ok \in BOOLEAN : solve(a[1], a[2], ok)
    \/ \E fi \in FitIndexInputs : fit(fi)
    \/ \E par_fit \in UNION { TrialPoints(q) : q \in { frame[i].fit_params0 : i \in DOMAIN frame } },
          ok \in BOOLEAN : function_handle(par_fit, ok)
    \/ \E par_opt \in UNION { TrialPoints(q) : q \in { frame[i].fit_params0 : i \in DOMAIN frame } } :
          curve_fit_return(par_opt)
    \/ curve_fit_raise

Spec == Init /\ [][Next]_vars

\* ------------------------------------------------------------ properties

\* Notions the claims are stated in, written out independently of the
\* operators that model the code.
HasNonPositive(pin) == \E i \in 1..Len(pin.v) : ~(pin.v[i] > 0)

LengthMismatch(pin, icin) == Len(pin.v) # NUM_PARAMS \/ Len(icin) # NUM_IC

Unselected(mask) == { i \in 1..Len(mask) : ~mask[i] }

Selected(mask) == { i \in 1..Len(mask) : mask[i] }

RatAdd(a, b) ==
    IF a.cls = "nan" \/ b.cls = "nan" THEN NaN
    ELSE IF a.cls = "inf" /\ b.cls = "inf" THEN (IF a.num = b.num THEN a ELSE NaN)
    ELSE IF a.cls = "inf" THEN a
    ELSE IF b.cls = "inf" THEN b
    ELSE Quot(a.num * b.den + b.num * a.den, a.den * b.den)

RECURSIVE RatSum(_)
RatSum(s) == IF s = << >> THEN Quot(0, 1) ELSE RatAdd(Head(s), RatSum(Tail(s)))

RatDiff(a, b) == Quot(a.num * b.den - b.num * a.den, a.den * b.den)

InUnitInterval(x) == x.cls = "fin" /\ 0 <= x.num /\ x.num <= x.den

One == [cls |-> "fin", num |-> 1, den |-> 1]

C2_MismatchAlwaysCountError ==
    [][(ret'.op = "set_params" /\ LengthMismatch(ret'.args[1], ret'.args[2]))
           => ret'.res = "InvalidNumberOfParametersError"]_vars

\* C2 amended: a set_params call with a length mismatch raises
\* InvalidNumberOfParametersError when every parameter entry is strictly
\* positive, and InvalidParameterError when one is not (the sign check runs
\* first); either way the store is left as it was.
C2_MismatchRejected ==
    [][(ret'.op = "set_params" /\ LengthMismatch(ret'.args[1], ret'.args[2]))
           => /\ ret'.res = IF HasNonPositive(ret'.args[1])
                            THEN "InvalidParameterError"
                            ELSE "InvalidNumberOfParametersError"
              /\ store' = store]_vars

\* C2 witness: a call was rejected for its lengths on an instance that
\* already held parameters.
C2_Witness ==
    /\ ret.op = "set_params" /\ ret.res = "InvalidNumberOfParametersError"
    /\ LengthMismatch(ret.args[1], ret.args[2])
    /\ p # None

\* C3 as claimed: whenever parameters are stored, each is strictly positive.
C3_StoredParamsPositive ==
    p # None => \A i \in 1..Len(p[1].v) : p[1].v[i] > 0

\* C4 as claimed: after a set_params call that returned, the population is
\* strictly positive and the normalised initial conditions lie in [0, 1]
\* and sum to 1.
C4_NormalizedAfterSetParams ==
    (ret.op = "set_params" /\ ret.res = "ok")
        => /\ pop[1] > 0
           /\ \A i \in 1..Len(w0[1]) : InUnitInterval(w0[1][i])
           /\ RatSum(w0[1]) = One

\* C5: a solution exists exactly when some solve call has returned; solve
\* on an instance whose parameters were never set fails; without a solution
\* fetch returns None and export raises; set_params and fit never create one.
C5_SolutionOnlyFromSolve ==
    /\ [](/\ (sol # None) <=> solved
          /\ (ret.op = "solve" /\ p = None) => (ret.res = "error" /\ sol = None)
          /\ (ret.op = "fetch" /\ ~solved) => ret.val = None
          /\ (ret.op = "export" /\ ~solved) => ret.res = "MissingSolution")
    /\ [][ret'.op \in {"set_params", "fit"} => sol' = sol]_vars

\* C5 witness: export raised for want of a solution on an instance whose
\* parameters had been set and fitted.
C5_Witness ==
    /\ ret.op = "export" /\ ret.res = "MissingSolution"
    /\ p # None /\ pcov # None /\ ~solved

\* C6 as claimed: after solve with its default arguments, consecutive
\* values of the solution's time column differ by exactly one day.
C6_DefaultGridIsDaily ==
    (ret.op = "solve" /\ ret.res = "ok" /\ ret.args = << DAYS, NUMPOINTS >>)
        => \A i \in 1..(Len(sol[1].t) - 1) : RatDiff(sol[1].t[i + 1], sol[1].t[i]) = One

\* C7: the covariance matrix is present exactly when some fit call has
\* returned: a fit call that raises does not set it, and no later operation
\* clears it.
C7_PcovIffFitted ==
    /\ []((pcov # None) <=> fitted)
    /\ [][(ret'.op = "fit" /\ ret'.res # "ok") => pcov' = pcov]_vars
    /\ [][pcov # None => pcov' # None]_vars

\* C7 witness: the matrix of an earlier fit is still there after a later
\* set_params call that returned.
C7_Witness ==
    pcov # None /\ ret.op = "set_params" /\ ret.res = "ok"

\* C8 as claimed: a fit call whose selector is all false ends in an error
\* before any trial evaluation, with the stored parameters untouched.
C8_EmptySelectorFailsFast ==
    (frame # None /\ Selected(frame[1].fit_index) = {})
        => /\ frame[1].trials = 0
           /\ pc = "idle" => ret.res = "error"
           /\ p[1] = frame[1].pre

\* C9 as claimed: during and after a fit call the entries the selector
\* leaves out keep their pre-fit values, and after a call that returned the
\* selected entries are the values the optimizer returned.
C9_FitFrame ==
    frame # None
        => /\ \A i \in Unselected(frame[1].fit_index) : p[1].v[i] = frame[1].pre.v[i]
           /\ (ret.op = "fit" /\ ret.res = "ok")
                  => GetMaskedFrom(p[1].v, frame[1].fit_index, 1) = ret.args

\* C10 as claimed: a fit call that raises after at least one trial
\* evaluation leaves the selected entries equal to the last trial values.
C10_FailedFitKeepsLastTrial ==
    (frame # None /\ ret.op = "fit" /\ ret.res = "error" /\ frame[1].trials >= 1)
        => GetMaskedFrom(p[1].v, frame[1].fit_index, 1) = frame[1].last[1]

====
